---- MODULE Spec2Model ----
(***************************************************************************)
(* Model of scraper.py: the incremental feed ingestion pipeline            *)
(* (load_data, save_data, ask_gemini_for_location,                         *)
(* get_coordinates_from_address, update_feed).                             *)
(*                                                                         *)
(* Python values are modelled as follows.  An optional value is a sequence *)
(* of length 0 (None) or 1 (the value).  A str is a sequence of            *)
(* characters.  The result of a call is a record [exc, val]: exc = TRUE    *)
(* when the call raised.  Each run of update_feed is one process           *)
(* invocation; its local variables are indexed by the process.             *)
(***************************************************************************)
EXTENDS Integers, Sequences, FiniteSets, TLC

VARIABLES
    file,               \* DATA_FILE on disk: None (no file) or Some(list of records)
    pc,                 \* position of each process in update_feed
    GEMINI_API_KEY,     \* module-level credential read at process start
    current_data,       \* update_feed local
    existing_links,     \* update_feed local
    feed,               \* feed.entries as returned by feedparser.parse
    idx,                \* position of the for loop in feed.entries (1-based)
    pub_date,           \* update_feed local, None outside an iteration
    extracted_location, \* update_feed local, None outside an iteration
    new_entries,        \* update_feed local
    calls,              \* history: external calls and sleeps of the run, in order
    snapshot,           \* history: content of file when the run loaded it
    wrote,              \* history: the run opened DATA_FILE for writing
    reported,           \* history: count printed by the run, None if none printed
    sameFeed,           \* history: the run got the feed of the completed run before it
    lastFeed            \* history: Some(feed of the run that just completed), until the next run starts

vars == <<file, pc, GEMINI_API_KEY, current_data, existing_links, feed, idx,
          pub_date, extracted_location, new_entries, calls, snapshot, wrote,
          reported, sameFeed,
                   lastFeed>>

----------------------------------------------------------------------------
(* Bounds and input samples.  A character outside ASCII is written by its  *)
(* code point: U+718A and U+30AF U+30DE are the two keywords, U+3002 the   *)
(* ideographic full stop, U+672D a place name; LF is the newline.          *)

MaxFeed == 2

Procs == {1, 2}

None == <<>>
Some(x) == <<x>>

Ret(v) == [exc |-> FALSE, val |-> v]
Raise == [exc |-> TRUE, val |-> None]

\* Python truthiness of an optional str
Truthy(o) == o # None /\ o[1] # <<>>

\* feed entries.  published_parsed is reduced to (month, day) and is None
\* when the feed gives none.  The titles hold the first keyword, the
\* second keyword, or the characters of the second in the wrong order.
Catalogue ==
    { [link |-> "L1", title |-> <<"U+718A", "U+51FA">>,
       published_parsed |-> Some(<<10, 5>>), source |-> Some("NHK")],
      [link |-> "L2", title |-> <<"U+30AF", "U+30DE">>,
       published_parsed |-> Some(<<9, 30>>), source |-> None],
      [link |-> "L2", title |-> <<"U+30DE", "U+30AF">>,
       published_parsed |-> Some(<<10, 5>>), source |-> Some("NHK")],
      [link |-> "L2", title |-> <<"U+718A", "U+51FA">>,
       published_parsed |-> None, source |-> None],
      [link |-> "L1", title |-> <<"U+30DE", "U+30AF">>,
       published_parsed |-> None, source |-> None] }

Feeds == UNION { [1..n -> Catalogue] : n \in 0..MaxFeed }

\* os.environ.get("GEMINI_API_KEY"): unset, set to the empty string, set
Keys == { None, Some(<<>>), Some(<<"k">>) }

\* model.generate_content(prompt) / response.text: raises, or returns text
GeminiOutcomes ==
    { Raise,
      Ret(<<" ", "U+672D", "U+3002", "LF">>),
      Ret(<<"N", "o", "n", "e">>),
      Ret(<<"U+672D", "N", "o", "n", "e">>),
      Ret(<<" ", "LF">>),
      Ret(<<"U+3002">>) }

\* geolocator.geocode(...): a match, no match, GeocoderTimedOut, other error
GeocodeOutcomes ==
    { [kind |-> "ok", latitude |-> 43, longitude |-> 141],
      [kind |-> "nomatch", latitude |-> 0, longitude |-> 0],
      [kind |-> "timeout", latitude |-> 0, longitude |-> 0],
      [kind |-> "error", latitude |-> 0, longitude |-> 0] }

----------------------------------------------------------------------------
(* str helpers *)

Range(s) == { s[i] : i \in 1..Len(s) }

\* pat in s
Contains(s, pat) ==
    \E i \in 0..(Len(s) - Len(pat)) :
        \A j \in 1..Len(pat) : s[i + j] = pat[j]

Whitespace == {" ", "LF"}

\* s.strip()
Strip(s) ==
    LET keep == { i \in 1..Len(s) : s[i] \notin Whitespace }
    IN  IF keep = {} THEN <<>>
        ELSE LET lo == CHOOSE i \in keep : \A j \in keep : i <= j
                 hi == CHOOSE i \in keep : \A j \in keep : j <= i
             IN  SubSeq(s, lo, hi)

\* s.replace(ch, "")
Remove(s, ch) ==
    LET keepCh(c) == c # ch IN SelectSeq(s, keepCh)

\* a < b for str (lexicographic on code points; here digits)
RECURSIVE StrLess(_, _)
StrLess(a, b) ==
    IF b = <<>> THEN FALSE
    ELSE IF a = <<>> THEN TRUE
    ELSE IF Head(a) # Head(b) THEN Head(a) < Head(b)
    ELSE StrLess(Tail(a), Tail(b))

----------------------------------------------------------------------------
(* load_data / save_data *)

\* DATA_FILE left by a write that stopped midway: the text of the first
\* records, cut off
Torn(prefix) == <<prefix, "cut off">>

IsTorn(f) == Len(f) = 2

\* mutant: the existing file is never read (as with a wrong path)
load_data_ignores_file(f) == Ret(<<>>)

\* mutant: no os.path.exists test, open raises when there is no file
load_data_requires_file(f) ==
    IF f = None \/ IsTorn(f) THEN Raise ELSE Ret(f[1])

\* returns [exc, val]: [] when there is no file; json.load raises on a
\* text that is cut off
load_data(f) ==
    IF f = None THEN Ret(<<>>)
    ELSE IF IsTorn(f) THEN Raise
    ELSE Ret(f[1])

\* list.sort(key=date, reverse=True): stable, descending
RECURSIVE InsertDesc(_, _)
InsertDesc(sorted, x) ==
    IF sorted = <<>> THEN <<x>>
    ELSE IF StrLess(Head(sorted).date, x.date) THEN <<x>> \o sorted
    ELSE <<Head(sorted)>> \o InsertDesc(Tail(sorted), x)

RECURSIVE SortDesc(_)
SortDesc(data) ==
    IF data = <<>> THEN <<>>
    ELSE InsertDesc(SortDesc(SubSeq(data, 1, Len(data) - 1)), data[Len(data)])

\* mutant: the sort is left out
save_data_unsorted(data) == data

\* the list as sorted in place and written to DATA_FILE
save_data(data) == SortDesc(data)

----------------------------------------------------------------------------
(* the two resolver steps *)

NoneSentinel == <<"N", "o", "n", "e">>

\* mutant: no try/except around the call
ask_gemini_uncaught(key, title, g) ==
    IF ~Truthy(key) THEN [exc |-> FALSE, val |-> None, called |-> FALSE]
    ELSE IF g.exc THEN [exc |-> TRUE, val |-> None, called |-> TRUE]
    ELSE LET location_text == Strip(g.val)
         IN  IF Contains(location_text, NoneSentinel) \/ location_text = <<>>
             THEN [exc |-> FALSE, val |-> None, called |-> TRUE]
             ELSE [exc |-> FALSE,
                   val |-> Some(Remove(Remove(location_text, "LF"), "U+3002")),
                   called |-> TRUE]

\* mutant: no test of the credential before the call
ask_gemini_without_key_test(key, title, g) ==
    IF g.exc THEN [exc |-> FALSE, val |-> None, called |-> TRUE]
    ELSE LET location_text == Strip(g.val)
         IN  IF Contains(location_text, NoneSentinel) \/ location_text = <<>>
             THEN [exc |-> FALSE, val |-> None, called |-> TRUE]
             ELSE [exc |-> FALSE,
                   val |-> Some(Remove(Remove(location_text, "LF"), "U+3002")),
                   called |-> TRUE]

\* mutant: the answer is not tested for the "None" sentinel
ask_gemini_without_sentinel_test(key, title, g) ==
    IF ~Truthy(key) THEN [exc |-> FALSE, val |-> None, called |-> FALSE]
    ELSE IF g.exc THEN [exc |-> FALSE, val |-> None, called |-> TRUE]
    ELSE LET location_text == Strip(g.val)
         IN  IF location_text = <<>>
             THEN [exc |-> FALSE, val |-> None, called |-> TRUE]
             ELSE [exc |-> FALSE,
                   val |-> Some(Remove(Remove(location_text, "LF"), "U+3002")),
                   called |-> TRUE]

\* returns [exc, val, called]: val is None or Some(str); called is TRUE
\* when generate_content was invoked
ask_gemini_for_location(key, title, g) ==
    IF ~Truthy(key) THEN [exc |-> FALSE, val |-> None, called |-> FALSE]
    ELSE IF g.exc THEN [exc |-> FALSE, val |-> None, called |-> TRUE]
    ELSE LET location_text == Strip(g.val)
         IN  IF Contains(location_text, NoneSentinel) \/ location_text = <<>>
             THEN [exc |-> FALSE, val |-> None, called |-> TRUE]
             ELSE [exc |-> FALSE,
                   val |-> Some(Remove(Remove(location_text, "LF"), "U+3002")),
                   called |-> TRUE]

\* mutant: a dict is returned also when nothing was found
get_coordinates_always_dict(address, c) ==
    IF c.kind = "ok"
    THEN Ret(Some([lat |-> Some(c.latitude), lng |-> Some(c.longitude)]))
    ELSE Ret(Some([lat |-> None, lng |-> None]))

\* returns [exc, val]: val is None or Some([lat, lng])
get_coordinates_from_address(address, c) ==
    IF c.kind = "ok"
    THEN Ret(Some([lat |-> Some(c.latitude), lng |-> Some(c.longitude)]))
    ELSE Ret(None)

----------------------------------------------------------------------------
(* update_feed *)

\* mutant: the index also holds every link seen before, stored or not
BuildLinks_all_seen(data) == {"L1", "L2"}

\* mutant: the index is built from the (empty) list of new entries
BuildLinks_of_nothing(data) == {}

BuildLinks(data) == { data[i].link : i \in 1..Len(data) }

\* mutant: the second keyword is tested by its first character only
KeywordMatch_first_char(title) ==
    Contains(title, <<"U+718A">>) \/ Contains(title, <<"U+30AF">>)

KeywordMatch(title) ==
    Contains(title, <<"U+718A">>) \/ Contains(title, <<"U+30AF", "U+30DE">>)

Sep == -1

\* datetime.datetime(*published[:6]).strftime(...), on (month, day):
\* zero-padded two-digit fields with a separator
FormatDate(published) ==
    IF published = None THEN Raise
    ELSE LET m == published[1][1]
             d == published[1][2]
         IN  IF m \notin 1..12 \/ d \notin 1..31 THEN Raise
             ELSE Ret(<<m \div 10, m % 10, Sep, d \div 10, d % 10>>)

MD5(link) == <<"md5", link>>

NewItem(entry, location, coords, date) ==
    [ id |-> MD5(entry.link),
      title |-> entry.title,
      location |-> location,
      lat |-> coords.lat,
      lng |-> coords.lng,
      date |-> date,
      link |-> entry.link,
      source |-> IF entry.source # None THEN entry.source[1] ELSE "Google News" ]

Event(op, i, resp) == [op |-> op, idx |-> i, resp |-> resp]

Init ==
    /\ file = None
    /\ pc = [p \in Procs |-> "idle"]
    /\ GEMINI_API_KEY = [p \in Procs |-> None]
    /\ current_data = [p \in Procs |-> <<>>]
    /\ existing_links = [p \in Procs |-> {}]
    /\ feed = [p \in Procs |-> <<>>]
    /\ idx = [p \in Procs |-> 1]
    /\ pub_date = [p \in Procs |-> None]
    /\ extracted_location = [p \in Procs |-> None]
    /\ new_entries = [p \in Procs |-> <<>>]
    /\ calls = [p \in Procs |-> <<>>]
    /\ snapshot = [p \in Procs |-> None]
    /\ wrote = [p \in Procs |-> FALSE]
    /\ reported = [p \in Procs |-> None]
    /\ sameFeed = [p \in Procs |-> FALSE]
    /\ lastFeed = None

Ended(p) == pc[p] \in {"done", "aborted", "load_failed"}

entry(p) == feed[p][idx[p]]

\* process start up to the for loop: module initialisation, load_data,
\* the identity index, feedparser.parse; the run ends at once when
\* load_data raises
Begin(p, key, f, next) ==
    /\ pc[p] = "idle"
    /\ GEMINI_API_KEY' = [GEMINI_API_KEY EXCEPT ![p] = key]
    /\ current_data' = [current_data EXCEPT ![p] = load_data(file).val]
    /\ existing_links' = [existing_links EXCEPT ![p] =
                            IF load_data(file).exc THEN {}
                            ELSE BuildLinks(load_data(file).val)]
    /\ feed' = [feed EXCEPT ![p] = IF load_data(file).exc THEN <<>> ELSE f]
    /\ idx' = [idx EXCEPT ![p] = 1]
    /\ pub_date' = [pub_date EXCEPT ![p] = None]
    /\ extracted_location' = [extracted_location EXCEPT ![p] = None]
    /\ new_entries' = [new_entries EXCEPT ![p] = <<>>]
    /\ calls' = [calls EXCEPT ![p] = <<>>]
    /\ snapshot' = [snapshot EXCEPT ![p] = file]
    /\ wrote' = [wrote EXCEPT ![p] = FALSE]
    /\ reported' = [reported EXCEPT ![p] = None]
    /\ sameFeed' = [sameFeed EXCEPT ![p] = (lastFeed = Some(f))]
    /\ lastFeed' = None
    /\ pc' = [pc EXCEPT ![p] = IF load_data(file).exc THEN "load_failed" ELSE next]
    /\ UNCHANGED file

StartRun(p) ==
    \E key \in Keys, f \in Feeds : Begin(p, key, f, "loop")

\* feedparser.parse raises: the run ends before the loop
FetchFail(p) ==
    \E key \in Keys : Begin(p, key, <<>>, "aborted")

\* mutant: the publish time is formatted before the duplicate check
HeadOutcome_date_first(e, links) ==
    IF FormatDate(e.published_parsed).exc THEN "raise"
    ELSE IF e.link \in links THEN "continue"
    ELSE IF ~KeywordMatch(e.title) THEN "continue"
    ELSE "extract"

\* mutant: the keyword filter runs before the publish time is formatted
HeadOutcome_filter_first(e, links) ==
    IF e.link \in links THEN "continue"
    ELSE IF ~KeywordMatch(e.title) THEN "continue"
    ELSE IF FormatDate(e.published_parsed).exc THEN "raise"
    ELSE "extract"

\* mutant: no duplicate check
HeadOutcome_without_duplicate_check(e, links) ==
    IF FormatDate(e.published_parsed).exc THEN "raise"
    ELSE IF ~KeywordMatch(e.title) THEN "continue"
    ELSE "extract"

\* what the head of an iteration does with the entry: "continue" (duplicate
\* link, or no keyword), "raise" (the publish time does not format) or
\* "extract" (go on to the resolver)
HeadOutcome(e, links) ==
    IF e.link \in links THEN "continue"
    ELSE IF FormatDate(e.published_parsed).exc THEN "raise"
    ELSE IF ~KeywordMatch(e.title) THEN "continue"
    ELSE "extract"

\* mutant: the loop sits in a try/finally that saves what was accumulated
LoopHead_saves_on_error(p) ==
    /\ pc[p] = "loop"
    /\ idx[p] <= Len(feed[p])
    /\ LET h == HeadOutcome(entry(p), existing_links[p])
           flush == h = "raise" /\ new_entries[p] # <<>>
       IN  /\ pc' = [pc EXCEPT ![p] = CASE h = "continue" -> "loop"
                                        [] h = "raise" -> "aborted"
                                        [] OTHER -> "extract"]
           /\ idx' = [idx EXCEPT ![p] = IF h = "continue" THEN @ + 1 ELSE @]
           /\ pub_date' = [pub_date EXCEPT ![p] =
                             IF h = "extract"
                             THEN Some(FormatDate(entry(p).published_parsed).val)
                             ELSE None]
           /\ file' = IF flush THEN Some(save_data(current_data[p] \o new_entries[p]))
                      ELSE file
           /\ wrote' = [wrote EXCEPT ![p] = flush]
    /\ UNCHANGED <<GEMINI_API_KEY, current_data, existing_links, feed,
                   extracted_location, new_entries, calls, snapshot,
                   reported, sameFeed, lastFeed>>

\* for entry in feed.entries: duplicate check, pub_date, keyword filter
LoopHead(p) ==
    /\ pc[p] = "loop"
    /\ idx[p] <= Len(feed[p])
    /\ LET h == HeadOutcome(entry(p), existing_links[p])
       IN  /\ pc' = [pc EXCEPT ![p] = CASE h = "continue" -> "loop"
                                        [] h = "raise" -> "aborted"
                                        [] OTHER -> "extract"]
           /\ idx' = [idx EXCEPT ![p] = IF h = "continue" THEN @ + 1 ELSE @]
           /\ pub_date' = [pub_date EXCEPT ![p] =
                             IF h = "extract"
                             THEN Some(FormatDate(entry(p).published_parsed).val)
                             ELSE None]
    /\ UNCHANGED <<file, GEMINI_API_KEY, current_data, existing_links, feed,
                   extracted_location, new_entries, calls, snapshot, wrote,
                   reported, sameFeed,
                   lastFeed>>

\* extracted_location = ask_gemini_for_location(title); skip when falsy
Extract(p) ==
    /\ pc[p] = "extract"
    /\ \E g \in GeminiOutcomes :
         LET ex == ask_gemini_for_location(GEMINI_API_KEY[p], entry(p).title, g)
             go == ~ex.exc /\ Truthy(ex.val)
         IN  /\ calls' = [calls EXCEPT ![p] =
                            IF ex.called THEN Append(@, Event("extract", idx[p], g))
                            ELSE @]
             /\ pc' = [pc EXCEPT ![p] = IF ex.exc THEN "aborted"
                                        ELSE IF go THEN "geocode" ELSE "loop"]
             /\ idx' = [idx EXCEPT ![p] = IF ex.exc \/ go THEN @ ELSE @ + 1]
             /\ extracted_location' = [extracted_location EXCEPT ![p] =
                                         IF go THEN ex.val ELSE None]
             /\ pub_date' = [pub_date EXCEPT ![p] = IF go THEN @ ELSE None]
    /\ UNCHANGED <<file, GEMINI_API_KEY, current_data, existing_links, feed,
                   new_entries, snapshot, wrote, reported, sameFeed,
                   lastFeed>>

\* coords = get_coordinates_from_address(extracted_location); skip when
\* falsy, else build new_item, append it and sleep
Geocode(p) ==
    /\ pc[p] = "geocode"
    /\ \E c \in GeocodeOutcomes :
         LET co == get_coordinates_from_address(extracted_location[p][1], c)
             ok == ~co.exc /\ co.val # None
         IN  /\ calls' = [calls EXCEPT ![p] =
                            IF ok
                            THEN @ \o <<Event("geocode", idx[p], c),
                                        Event("sleep", idx[p], None)>>
                            ELSE Append(@, Event("geocode", idx[p], c))]
             /\ new_entries' = [new_entries EXCEPT ![p] =
                                  IF ok
                                  THEN Append(@, NewItem(entry(p), extracted_location[p][1],
                                                         co.val[1], pub_date[p][1]))
                                  ELSE @]
             /\ pc' = [pc EXCEPT ![p] = IF co.exc THEN "aborted" ELSE "loop"]
             /\ idx' = [idx EXCEPT ![p] = IF co.exc THEN @ ELSE @ + 1]
    /\ pub_date' = [pub_date EXCEPT ![p] = None]
    /\ extracted_location' = [extracted_location EXCEPT ![p] = None]
    /\ UNCHANGED <<file, GEMINI_API_KEY, current_data, existing_links, feed,
                   snapshot, wrote, reported, sameFeed,
                   lastFeed>>

\* mutant: the count printed is that of the whole list
Commit_reports_total(p) ==
    /\ pc[p] = "loop"
    /\ idx[p] > Len(feed[p])
    /\ new_entries[p] # <<>>
    /\ LET saved == save_data(current_data[p] \o new_entries[p])
       IN  /\ current_data' = [current_data EXCEPT ![p] = saved]
           /\ file' = Some(saved)
           /\ reported' = [reported EXCEPT ![p] = Some(Len(saved))]
    /\ wrote' = [wrote EXCEPT ![p] = TRUE]
    /\ pc' = [pc EXCEPT ![p] = "done"]
    /\ UNCHANGED <<GEMINI_API_KEY, existing_links, feed, idx, pub_date,
                   extracted_location, new_entries, calls, snapshot, sameFeed,
                   lastFeed>>

\* mutant: the file is read again and merged just before the save
Commit_merges_file(p) ==
    /\ pc[p] = "loop"
    /\ idx[p] > Len(feed[p])
    /\ new_entries[p] # <<>>
    /\ LET saved == save_data(load_data(file).val \o new_entries[p])
       IN  /\ current_data' = [current_data EXCEPT ![p] = saved]
           /\ file' = Some(saved)
    /\ wrote' = [wrote EXCEPT ![p] = TRUE]
    /\ reported' = [reported EXCEPT ![p] = Some(Len(new_entries[p]))]
    /\ pc' = [pc EXCEPT ![p] = "done"]
    /\ UNCHANGED <<GEMINI_API_KEY, existing_links, feed, idx, pub_date,
                   extracted_location, new_entries, calls, snapshot, sameFeed,
                   lastFeed>>

\* if new_entries: extend, save_data, report the count
Commit(p) ==
    /\ pc[p] = "loop"
    /\ idx[p] > Len(feed[p])
    /\ new_entries[p] # <<>>
    /\ LET saved == save_data(current_data[p] \o new_entries[p])
       IN  /\ current_data' = [current_data EXCEPT ![p] = saved]
           /\ file' = Some(saved)
    /\ wrote' = [wrote EXCEPT ![p] = TRUE]
    /\ reported' = [reported EXCEPT ![p] = Some(Len(new_entries[p]))]
    /\ pc' = [pc EXCEPT ![p] = "done"]
    /\ UNCHANGED <<GEMINI_API_KEY, existing_links, feed, idx, pub_date,
                   extracted_location, new_entries, calls, snapshot, sameFeed,
                   lastFeed>>

\* mutant: save_data is called whether or not there is anything new
NoNew_saves_anyway(p) ==
    /\ pc[p] = "loop"
    /\ idx[p] > Len(feed[p])
    /\ new_entries[p] = <<>>
    /\ file' = Some(save_data(current_data[p]))
    /\ wrote' = [wrote EXCEPT ![p] = TRUE]
    /\ pc' = [pc EXCEPT ![p] = "done"]
    /\ UNCHANGED <<GEMINI_API_KEY, current_data, existing_links, feed,
                   idx, pub_date, extracted_location, new_entries, calls,
                   snapshot, reported, sameFeed, lastFeed>>

\* else: nothing new
NoNew(p) ==
    /\ pc[p] = "loop"
    /\ idx[p] > Len(feed[p])
    /\ new_entries[p] = <<>>
    /\ pc' = [pc EXCEPT ![p] = "done"]
    /\ UNCHANGED <<file, GEMINI_API_KEY, current_data, existing_links, feed,
                   idx, pub_date, extracted_location, new_entries, calls,
                   snapshot, wrote, reported, sameFeed,
                   lastFeed>>

\* the process ends (normally, or on the uncaught exception): its memory is
\* gone, DATA_FILE stays
Exit(p) ==
    /\ Ended(p)
    /\ lastFeed' = IF pc[p] = "done" THEN Some(feed[p]) ELSE None
    /\ pc' = [pc EXCEPT ![p] = "idle"]
    /\ GEMINI_API_KEY' = [GEMINI_API_KEY EXCEPT ![p] = None]
    /\ current_data' = [current_data EXCEPT ![p] = <<>>]
    /\ existing_links' = [existing_links EXCEPT ![p] = {}]
    /\ feed' = [feed EXCEPT ![p] = <<>>]
    /\ idx' = [idx EXCEPT ![p] = 1]
    /\ pub_date' = [pub_date EXCEPT ![p] = None]
    /\ extracted_location' = [extracted_location EXCEPT ![p] = None]
    /\ new_entries' = [new_entries EXCEPT ![p] = <<>>]
    /\ calls' = [calls EXCEPT ![p] = <<>>]
    /\ snapshot' = [snapshot EXCEPT ![p] = None]
    /\ wrote' = [wrote EXCEPT ![p] = FALSE]
    /\ reported' = [reported EXCEPT ![p] = None]
    /\ sameFeed' = [sameFeed EXCEPT ![p] = FALSE]
    /\ UNCHANGED file

\* runs do not overlap: one invocation at a time (process 1 stands for each)
Next ==
    \/ StartRun(1)
    \/ FetchFail(1)
    \/ LoopHead(1)
    \/ Extract(1)
    \/ Geocode(1)
    \/ Commit(1)
    \/ NoNew(1)
    \/ Exit(1)

Spec == Init /\ [][Next]_vars

\* save_data fails after open(DATA_FILE, 'w') truncated the file (the disk
\* is full, the process is killed): the file holds the text written so far
SaveFail(p) ==
    /\ pc[p] = "loop"
    /\ idx[p] > Len(feed[p])
    /\ new_entries[p] # <<>>
    /\ LET saved == save_data(current_data[p] \o new_entries[p])
       IN  /\ current_data' = [current_data EXCEPT ![p] = saved]
           /\ \E k \in 0..(Len(saved) - 1) : file' = Torn(SubSeq(saved, 1, k))
    /\ wrote' = [wrote EXCEPT ![p] = TRUE]
    /\ pc' = [pc EXCEPT ![p] = "aborted"]
    /\ UNCHANGED <<GEMINI_API_KEY, existing_links, feed, idx, pub_date,
                   extracted_location, new_entries, calls, snapshot, reported,
                   sameFeed, lastFeed>>

\* the feeds of the runs that may overlap, kept short so that the product
\* of the two runs stays small: one entry less for the first process, at
\* most one entry for the second
OverlapFeeds(p) ==
    { f \in Feeds : IF p = 1 THEN Len(f) < MaxFeed ELSE Len(f) <= 1 }

StartOverlap(p) ==
    \E key \in Keys, f \in OverlapFeeds(p) : Begin(p, key, f, "loop")

\* two invocations whose runs may overlap: nothing in the code keeps a
\* second process from starting while the first is between load and save
NextOverlap ==
    \E p \in Procs :
        \/ StartOverlap(p)
        \/ LoopHead(p)
        \/ Extract(p)
        \/ Geocode(p)
        \/ Commit(p)
        \/ NoNew(p)

SpecOverlap == Init /\ [][NextOverlap]_vars

\* as Next, with writes that may fail
NextWriteFail ==
    \/ Next
    \/ SaveFail(1)

SpecWriteFail == Init /\ [][NextWriteFail]_vars

----------------------------------------------------------------------------
(* Properties *)

\* the persisted list of records ([] when there is no file)
Stored == IF file = None THEN <<>> ELSE file[1]

Snap(p) == IF snapshot[p] = None THEN <<>> ELSE snapshot[p][1]

LinksOf(data) == { data[i].link : i \in 1..Len(data) }

Count(r, data) == Cardinality({ i \in 1..Len(data) : data[i] = r })

\* C1: the Store never contains two records with the same link (or id),
\* also when one feed pull holds two entries with the same link that both
\* pass the filter and resolve.
C1_NoDuplicateLinks ==
    \A i, j \in 1..Len(Stored) :
        (Stored[i].link = Stored[j].link \/ Stored[i].id = Stored[j].id) => i = j

\* C2 (as stated): a run that gets the same feed as the completed run
\* before it leaves the Store as that run left it.
C2_SecondRunAddsNothing ==
    \A p \in Procs :
        (pc[p] = "done" /\ sameFeed[p]) => (file = snapshot[p] /\ new_entries[p] = <<>>)

\* C2 (amended): a run that gets the same feed as the completed run before
\* it adds no record for a link the Store held after that run, and adds
\* nothing at all when the Store held the link of every entry of the feed;
\* an entry that the resolver dropped in that run may be added now.
C2_SecondRunAddsNoIndexedLink ==
    \A p \in Procs :
        (pc[p] = "done" /\ sameFeed[p]) =>
            /\ \A k \in 1..Len(new_entries[p]) :
                   new_entries[p][k].link \notin LinksOf(Snap(p))
            /\ (\A i \in 1..Len(feed[p]) : feed[p][i].link \in LinksOf(Snap(p)))
                   => (file = snapshot[p] /\ new_entries[p] = <<>>)

\* the second run skips a stored link and adds an entry the first run dropped
C2_Witness ==
    \E p \in Procs :
        /\ pc[p] = "done" /\ sameFeed[p]
        /\ new_entries[p] # <<>>
        /\ \E i \in 1..Len(feed[p]) : feed[p][i].link \in LinksOf(Snap(p))

\* C3: a run that aborts (the fetch raised, or an entry could not be
\* enumerated after earlier ones were accumulated) wrote nothing: the file
\* is the one the run loaded.
C3_AbortCommitsNothing ==
    \A p \in Procs :
        pc[p] = "aborted" => (file = snapshot[p] /\ ~wrote[p])

\* an abort on the second entry, after the first was resolved and accumulated
C3_Witness ==
    \E p \in Procs :
        pc[p] = "aborted" /\ idx[p] > 1 /\ new_entries[p] # <<>>

NonIncreasingByDate(data) ==
    \A i, j \in 1..Len(data) : i < j => ~StrLess(data[i].date, data[j].date)

C5_NoNewNoWrite ==
    \A p \in Procs :
        (pc[p] # "idle" /\ new_entries[p] = <<>>) => (~wrote[p] /\ file = snapshot[p])

\* a completed run on an existing file whose candidates were all dropped by
\* the resolver
C5_Witness ==
    \E p \in Procs :
        /\ pc[p] = "done" /\ new_entries[p] = <<>>
        /\ file # None
        /\ calls[p] # <<>>

IsGeocodeOk(e) == e.op = "geocode" /\ e.resp.kind = "ok"

\* C6: every record of a run and of the Store has lat and lng set, and the
\* records of a run are, in order, those of the entries whose geocoding call
\* returned a match: an entry whose extraction gave no place (no geocoding
\* call) or whose geocoding missed, timed out or raised gives no record.
C6_CoordinatesComplete ==
    /\ \A i \in 1..Len(Stored) : Stored[i].lat # None /\ Stored[i].lng # None
    /\ \A p \in Procs :
         LET matches == SelectSeq(calls[p], IsGeocodeOk)
         IN  /\ Len(new_entries[p]) = Len(matches)
             /\ \A k \in 1..Len(matches) :
                    /\ new_entries[p][k].link = feed[p][matches[k].idx].link
                    /\ new_entries[p][k].lat = Some(matches[k].resp.latitude)
                    /\ new_entries[p][k].lng = Some(matches[k].resp.longitude)

\* a run that saved a record although another candidate's geocoding timed out
C6_Witness ==
    \E p \in Procs :
        /\ pc[p] = "done" /\ wrote[p]
        /\ \E i, j \in 1..Len(calls[p]) :
             /\ calls[p][i].op = "geocode" /\ calls[p][i].resp.kind = "timeout"
             /\ IsGeocodeOk(calls[p][j])

\* the keyword test written out on the characters of a title
TitleHasKeyword(t) ==
    \/ \E i \in 1..Len(t) : t[i] = "U+718A"
    \/ \E i \in 1..(Len(t) - 1) : t[i] = "U+30AF" /\ t[i + 1] = "U+30DE"

\* C7: an entry whose title holds neither keyword never reaches the
\* extraction or the geocoding step, causes no call, and gives no record.
C7_FilterBeforeResolver ==
    /\ \A i \in 1..Len(Stored) : TitleHasKeyword(Stored[i].title)
    /\ \A p \in Procs :
         /\ pc[p] \in {"extract", "geocode"} => TitleHasKeyword(entry(p).title)
         /\ \A k \in 1..Len(calls[p]) : TitleHasKeyword(feed[p][calls[p][k].idx].title)
         /\ \A k \in 1..Len(new_entries[p]) : TitleHasKeyword(new_entries[p][k].title)

\* a completed run with the credential set passed over a new entry without
\* keyword and resolved another entry
C7_Witness ==
    \E p \in Procs :
        /\ pc[p] = "done" /\ new_entries[p] # <<>>
        /\ \E i \in 1..Len(feed[p]) :
             /\ ~TitleHasKeyword(feed[p][i].title)
             /\ feed[p][i].link \notin LinksOf(Snap(p))
             /\ feed[p][i].published_parsed # None

\* C8: no step removes or changes a stored record: each record is in the
\* Store after the step as many times as before it.
C8_RecordsRetained ==
    [][\A i \in 1..Len(Stored) : Count(Stored[i], Stored) <= Count(Stored[i], Stored')]_vars

\* a save moved a record that was stored before: the first record of the
\* loaded file is no longer the first
C8_Witness ==
    \E p \in Procs :
        /\ wrote[p] /\ Len(Snap(p)) >= 1
        /\ Stored[1] # Snap(p)[1]
        /\ Count(Snap(p)[1], Stored) >= 1

\* the entry a run stopped on cannot be enumerated: it has no publish time
Unenumerable(p) ==
    idx[p] <= Len(feed[p]) /\ entry(p).published_parsed = None

\* C9: a resolver miss or error never aborts the run: a run aborts only
\* where the fetch failed or an entry cannot be enumerated, every call of
\* an aborted run belongs to an earlier entry the loop went past, and a
\* run that is done has all its resolved records in the Store.
C9_ResolverFailureIsolated ==
    \A p \in Procs :
        /\ pc[p] = "aborted" =>
             /\ feed[p] = <<>> \/ Unenumerable(p)
             /\ \A k \in 1..Len(calls[p]) : calls[p][k].idx < idx[p]
        /\ pc[p] = "done" =>
             /\ idx[p] = Len(feed[p]) + 1
             /\ \A k \in 1..Len(new_entries[p]) : Count(new_entries[p][k], Stored) >= 1

\* a completed run: the first candidate's extraction raised, and a later
\* candidate was resolved and saved
C9_Witness ==
    \E p \in Procs :
        /\ pc[p] = "done" /\ wrote[p]
        /\ calls[p][1].op = "extract" /\ calls[p][1].resp.exc
        /\ \E k \in 1..Len(calls[p]) : IsGeocodeOk(calls[p][k]) /\ calls[p][k].idx > calls[p][1].idx

\* C10: with the credential absent (unset or empty) a run makes no
\* extraction and no geocoding call, accumulates no record, writes nothing,
\* and does not abort at a candidate: it stops early only where the fetch
\* failed or an entry cannot be enumerated.
C10_NoCredentialNoCalls ==
    \A p \in Procs :
        (pc[p] # "idle" /\ ~Truthy(GEMINI_API_KEY[p])) =>
            /\ calls[p] = <<>>
            /\ new_entries[p] = <<>>
            /\ ~wrote[p] /\ file = snapshot[p]
            /\ pc[p] # "geocode"
            /\ pc[p] = "aborted" => (feed[p] = <<>> \/ Unenumerable(p))

\* a completed run without credential whose feed held a new entry with a
\* keyword
C10_Witness ==
    \E p \in Procs :
        /\ pc[p] = "done" /\ GEMINI_API_KEY[p] = None
        /\ \E i \in 1..Len(feed[p]) :
             TitleHasKeyword(feed[p][i].title) /\ feed[p][i].link \notin LinksOf(Snap(p))

\* C11: a run that finds no data file loads the empty list and does not
\* fail on it; when it resolves records, the file it creates holds exactly
\* those records.
C11_MissingFileIsEmptyStore ==
    \A p \in Procs :
        (pc[p] # "idle" /\ snapshot[p] = None) =>
            /\ pc[p] # "load_failed"
            /\ existing_links[p] = {}
            /\ pc[p] \in {"loop", "extract", "geocode"} => current_data[p] = <<>>
            /\ (pc[p] = "done" /\ new_entries[p] # <<>>) =>
                 /\ file # None /\ ~IsTorn(file)
                 /\ Len(Stored) = Len(new_entries[p])
                 /\ \A k \in 1..Len(Stored) :
                        Count(Stored[k], Stored) = Count(Stored[k], new_entries[p])

\* the first run created the file with the two records it resolved
C11_Witness ==
    \E p \in Procs :
        /\ pc[p] = "done" /\ snapshot[p] = None
        /\ Len(new_entries[p]) = 2 /\ Len(Stored) = 2

\* C12: a run that completes and prints a count prints the number of
\* records it accumulated, which is the growth of the Store; a run that
\* completes without printing one accumulated nothing and the Store has
\* not grown.
C12_ReportedCountIsGrowth ==
    \A p \in Procs :
        pc[p] = "done" =>
            IF reported[p] # None
            THEN /\ reported[p][1] = Len(new_entries[p])
                 /\ reported[p][1] = Len(Stored) - Len(Snap(p))
            ELSE /\ new_entries[p] = <<>>
                 /\ Len(Stored) = Len(Snap(p))

\* a run on a Store that held a record reported one more
C12_Witness ==
    \E p \in Procs :
        /\ pc[p] = "done" /\ reported[p] = Some(1)
        /\ Len(Snap(p)) >= 1

\* C13: between any two successive geocoding calls of a run there is a
\* sleep, also when the earlier call found nothing, timed out or raised.
C13_SleepBetweenGeocodingCalls ==
    \A p \in Procs :
        \A i, j \in 1..Len(calls[p]) :
            (i < j /\ calls[p][i].op = "geocode" /\ calls[p][j].op = "geocode") =>
                \E k \in (i + 1)..(j - 1) : calls[p][k].op = "sleep"

\* C14: whatever happens to a write, the file is the complete content from
\* before the save or the complete new content, and load_data reads it.
C14_FileOldOrNew ==
    /\ ~load_data(file).exc
    /\ \A p \in Procs :
         wrote[p] => (file = snapshot[p] \/ file = Some(current_data[p]))

\* the calls of kind op a run made for entry number i
CallsFor(p, op, i) ==
    { k \in 1..Len(calls[p]) : calls[p][k].op = op /\ calls[p][k].idx = i }

\* entry number i of the feed has a link of the loaded Store
IsDuplicate(p, i) == feed[p][i].link \in LinksOf(Snap(p))

\* C15: an entry whose link is in the index built at load time is dropped
\* before anything else: the run never stops on it for its publish time,
\* never takes it to the resolver, makes no call for it and builds no
\* record with its link.
C15_DuplicateCheckFirst ==
    \A p \in Procs :
        \A i \in 1..Len(feed[p]) :
            IsDuplicate(p, i) =>
                /\ \A k \in 1..Len(calls[p]) : calls[p][k].idx # i
                /\ idx[p] = i => pc[p] \notin {"extract", "geocode", "aborted"}
                /\ \A k \in 1..Len(new_entries[p]) :
                       new_entries[p][k].link # feed[p][i].link

\* a run that completed although an entry with a stored link had a keyword
\* and no publish time
C15_Witness ==
    \E p \in Procs :
        /\ pc[p] = "done"
        /\ \E i \in 1..Len(feed[p]) :
             /\ IsDuplicate(p, i)
             /\ feed[p][i].published_parsed = None
             /\ TitleHasKeyword(feed[p][i].title)

\* entry number i passed the duplicate test and the keyword test
IsCandidate(p, i) ==
    ~IsDuplicate(p, i) /\ TitleHasKeyword(feed[p][i].title)

\* entry number i has been dealt with
Past(p, i) == i < idx[p]

\* the text of an extraction answer holds something besides whitespace
ReturnedText(e) ==
    ~e.resp.exc /\ \E n \in 1..Len(e.resp.val) : e.resp.val[n] \notin {" ", "LF"}

\* what C16 says of geocoding calls and of entries that are no candidates
CallBudgetRest(p) ==
    \A i \in 1..Len(feed[p]) :
        /\ Cardinality(CallsFor(p, "extract", i)) <= 1
        /\ Cardinality(CallsFor(p, "geocode", i)) <= 1
        /\ \A k \in CallsFor(p, "geocode", i) :
               \E j \in CallsFor(p, "extract", i) : j < k /\ ReturnedText(calls[p][j])
        /\ ~IsCandidate(p, i) =>
               (CallsFor(p, "extract", i) = {} /\ CallsFor(p, "geocode", i) = {})

\* C16 (as stated): every candidate causes exactly one extraction call and
\* at most one geocoding call, after its extraction returned a place; no
\* call is made for an entry that is no candidate, and none is repeated.
C16_OneExtractionPerCandidate ==
    \A p \in Procs :
        /\ CallBudgetRest(p)
        /\ \A i \in 1..Len(feed[p]) :
               (IsCandidate(p, i) /\ Past(p, i)) =>
                   Cardinality(CallsFor(p, "extract", i)) = 1

\* C16 (amended): the same, with exactly one extraction call per candidate
\* when the credential is set and none when it is absent.
C16_CallBudget ==
    \A p \in Procs :
        /\ CallBudgetRest(p)
        /\ \A i \in 1..Len(feed[p]) :
               (IsCandidate(p, i) /\ Past(p, i)) =>
                   Cardinality(CallsFor(p, "extract", i)) =
                       IF Truthy(GEMINI_API_KEY[p]) THEN 1 ELSE 0

\* a completed run with two candidates: two extraction calls, one geocoding
\* call
C16_Witness ==
    \E p \in Procs :
        /\ pc[p] = "done"
        /\ CallsFor(p, "extract", 1) # {} /\ CallsFor(p, "extract", 2) # {}
        /\ CallsFor(p, "geocode", 1) = {} /\ CallsFor(p, "geocode", 2) # {}

\* C17: a candidate that a run dropped is neither stored nor indexed, so
\* the next run, on the same feed, has in its index the links of the Store
\* only, calls the resolver for that entry again and, when the resolution
\* succeeds, adds its record.
C17_MissedCandidateRetried ==
    \A p \in Procs :
        /\ pc[p] \in {"loop", "extract", "geocode", "done"} =>
               existing_links[p] = LinksOf(Snap(p))
        /\ sameFeed[p] =>
               \A i \in 1..Len(feed[p]) :
                   (IsCandidate(p, i) /\ Past(p, i) /\ Truthy(GEMINI_API_KEY[p])) =>
                       /\ CallsFor(p, "extract", i) # {}
                       /\ (\E k \in CallsFor(p, "geocode", i) : IsGeocodeOk(calls[p][k])) =>
                              /\ \E n \in 1..Len(new_entries[p]) :
                                     new_entries[p][n].link = feed[p][i].link
                              /\ pc[p] = "done" => feed[p][i].link \in LinksOf(Stored)

\* the run after a completed run on the same feed resolved and saved an
\* entry that run had dropped
C17_Witness ==
    \E p \in Procs :
        /\ pc[p] = "done" /\ sameFeed[p] /\ wrote[p]
        /\ \E k \in 1..Len(calls[p]) : IsGeocodeOk(calls[p][k])

\* the answer is the "None" sentinel, or empty once stripped
IsSentinelOrEmpty(t) ==
    t = <<"N", "o", "n", "e">> \/ \A n \in 1..Len(t) : t[n] \in {" ", "LF"}

\* C18: for a candidate whose extraction answer is the sentinel or empty,
\* no geocoding call is made and no record is built, whatever the
\* geocoding service would answer.
C18_SentinelNoGeocoding ==
    \A p \in Procs :
        \A k \in 1..Len(calls[p]) :
            (calls[p][k].op = "extract" /\ ~calls[p][k].resp.exc
                 /\ IsSentinelOrEmpty(calls[p][k].resp.val)) =>
                /\ CallsFor(p, "geocode", calls[p][k].idx) = {}
                /\ ~(pc[p] = "geocode" /\ idx[p] = calls[p][k].idx)
                /\ Len(new_entries[p]) =
                       Cardinality({ j \in 1..Len(calls[p]) :
                                       IsGeocodeOk(calls[p][j]) /\ calls[p][j].idx # calls[p][k].idx })

\* a completed run: one answer was the sentinel, and geocoding matched for
\* another candidate
C18_Witness ==
    \E p \in Procs :
        /\ pc[p] = "done" /\ wrote[p]
        /\ \E k \in 1..Len(calls[p]) :
             calls[p][k].op = "extract" /\ calls[p][k].resp = Ret(<<"N", "o", "n", "e">>)

\* C20: the publish time is formatted before the keyword filter: a run
\* never gets past an entry with a new link whose publish time does not
\* format, with or without keyword; it aborts there and commits nothing.
C20_DateBeforeKeywordFilter ==
    \A p \in Procs :
        /\ \A i \in 1..Len(feed[p]) :
               (Past(p, i) /\ ~IsDuplicate(p, i)) => feed[p][i].published_parsed # None
        /\ (idx[p] <= Len(feed[p]) /\ pc[p] \in {"extract", "geocode"}) =>
               entry(p).published_parsed # None
        /\ (pc[p] = "aborted" /\ Unenumerable(p)) => (file = snapshot[p] /\ ~wrote[p])

\* a run aborted on an entry without keyword and without publish time,
\* after it had accumulated a record
C20_Witness ==
    \E p \in Procs :
        /\ pc[p] = "aborted" /\ Unenumerable(p)
        /\ ~TitleHasKeyword(entry(p).title)
        /\ new_entries[p] # <<>>

\* both runs loaded the same file and both saved: their runs overlapped
\* (a run that starts after a save loads a longer file)
Overlapped == 
    /\ \A p \in Procs : pc[p] = "done" /\ wrote[p]
    /\ snapshot[1] = snapshot[2]

\* C19: when two runs overlap and both save, the file is the list of the
\* run that saved last (what it loaded and what it resolved itself): a
\* record of the other run is in the Store only as often as the last run
\* loaded or resolved it.
C19_LaterSaveOverwrites ==
    Overlapped =>
        \E p \in Procs :
            /\ file = Some(current_data[p])
            /\ \A k \in 1..Len(Stored) :
                   Count(Stored[k], Stored) = Count(Stored[k], Snap(p) \o new_entries[p])
            /\ \A q \in Procs : \A k \in 1..Len(new_entries[q]) :
                   Count(new_entries[q][k], Stored) =
                       Count(new_entries[q][k], Snap(p) \o new_entries[p])

\* both runs saved, and a record that one of them persisted is no longer in
\* the Store
C19_Witness ==
    /\ Overlapped
    /\ \E q \in Procs : \E k \in 1..Len(new_entries[q]) :
           Count(new_entries[q][k], Stored) = 0

====
